---- MODULE Spec2Model ----
(***************************************************************************)
(* Model of aws/resource_aws_route53_vpc_association_authorization.go:     *)
(* the Route 53 VPC association authorization resource (identifier codec,  *)
(* lookup-by-scan, Create / Read / Delete handlers) and the ECS capacity   *)
(* provider resource (expand / flatten of the auto scaling group provider, *)
(* Create / Read handlers).                                                *)
(*                                                                         *)
(* Go strings that the code parses or compares are sequences of one        *)
(* character strings; a nil pointer or nil error is the value Nil.         *)
(***************************************************************************)
EXTENDS Integers, Sequences, FiniteSets, TLC

VARIABLES
  \* identifier codec, applied to drawn inputs
  codecOp, codecA, codecB, codecId, codecOut,
  \* lookup-by-scan, applied to drawn inputs
  scanOp, scanZone, scanVpc, scanResp, scanOut,
  \* VPC association authorization resource (schema.ResourceData d, AWSClient meta)
  config, region, id, attrs, lastOp, lastErr, calls, readId, listResp,
  prev, created, clean,
  \* ECS capacity provider resource
  ecsConfig, ecsId, ecsReq, ecsResp, ecsState, ecsOp, ecsErr

codecVars == <<codecOp, codecA, codecB, codecId, codecOut>>
scanVars == <<scanOp, scanZone, scanVpc, scanResp, scanOut>>
authVars == <<config, region, id, attrs, lastOp, lastErr, calls, readId, listResp,
              prev, created, clean>>
ecsVars == <<ecsConfig, ecsId, ecsReq, ecsResp, ecsState, ecsOp, ecsErr>>
vars == <<codecVars, scanVars, authVars, ecsVars>>

----------------------------------------------------------------------------
\* Bounds of the model.

\* longest identifier handed to the parser
MaxLen == 4
\* longest zone / VPC half handed to the encoder
MaxPart == 2
\* most VPC entries in one page of the list response
MaxVPCs == 2
\* largest scaling step size / target capacity drawn for the ECS provider
MaxStep == 1

\* a nil error
Nil == "nil"
\* a nil pointer, and a pointer to x
None == <<>>
Some(x) == <<x>>
Chars == {"z", "v", ":"}

SeqsUpTo(S, n) == UNION {[1..k -> S] : k \in 0..n}

----------------------------------------------------------------------------
\* Identifier codec.

\* strings.Split(id, ":"): cur is the part being read, acc the finished parts
RECURSIVE SplitAcc(_, _, _)
SplitAcc(s, cur, acc) ==
  IF s = <<>> THEN Append(acc, cur)
  ELSE IF Head(s) = ":" THEN SplitAcc(Tail(s), <<>>, Append(acc, cur))
  ELSE SplitAcc(Tail(s), Append(cur, Head(s)), acc)

Split(s) == SplitAcc(s, <<>>, <<>>)

ParseIdSwapped(i) ==
  LET parts == Split(i) IN
  IF Len(parts) # 2 \/ parts[1] = <<>> \/ parts[2] = <<>>
  THEN [zone |-> <<>>, vpc |-> <<>>, err |-> "UnexpectedFormat"]
  ELSE [zone |-> parts[2], vpc |-> parts[1], err |-> Nil]

ParseIdTruncating(i) ==
  LET parts == Split(i) IN
  IF Len(parts) < 2 \/ parts[1] = <<>> \/ parts[2] = <<>>
  THEN [zone |-> <<>>, vpc |-> <<>>, err |-> "UnexpectedFormat"]
  ELSE [zone |-> parts[1], vpc |-> parts[2], err |-> Nil]

\* resourceAwsRoute53VPCAssociationAuthorizationParseId
ParseId(i) ==
  LET parts == Split(i) IN
  IF Len(parts) # 2 \/ parts[1] = <<>> \/ parts[2] = <<>>
  THEN [zone |-> <<>>, vpc |-> <<>>, err |-> "UnexpectedFormat"]
  ELSE [zone |-> parts[1], vpc |-> parts[2], err |-> Nil]

\* fmt.Sprintf("%s:%s", zone, vpc) in Create
EncodeId(zone, vpc) == zone \o <<":">> \o vpc

NoParse == [zone |-> <<>>, vpc |-> <<>>, err |-> Nil]

\* the parser applied to an arbitrary identifier
ParseAny ==
  /\ \E i \in SeqsUpTo(Chars, MaxLen) :
       /\ codecId' = i
       /\ codecOut' = ParseId(i)
  /\ codecOp' = "parse"
  /\ codecA' = <<>>
  /\ codecB' = <<>>
  /\ UNCHANGED <<scanVars, authVars, ecsVars>>

\* the parser applied to the identifier Create builds from two halves
EncodeDecode ==
  /\ \E a \in SeqsUpTo(Chars, MaxPart), b \in SeqsUpTo(Chars, MaxPart) :
       /\ codecA' = a
       /\ codecB' = b
       /\ codecId' = EncodeId(a, b)
       /\ codecOut' = ParseId(EncodeId(a, b))
  /\ codecOp' = "roundtrip"
  /\ UNCHANGED <<scanVars, authVars, ecsVars>>

----------------------------------------------------------------------------
\* Lookup-by-scan.

AwsErrCodes == {"NoSuchHostedZone", "InvalidInput", "RequestError"}
VpcRegions == {"us", "eu"}
RemoteVpcIds == {<<"v">>, <<"v", "v">>}

\* route53.VPC as the list call returns it
VpcEntries == [VPCId : {None} \cup {Some(v) : v \in RemoteVpcIds}, VPCRegion : VpcRegions]

\* outcome of conn.ListVPCAssociationAuthorizations: an error, or one page of VPCs
ListResponses ==
  [err : AwsErrCodes, VPCs : {<<>>}] \cup [err : {Nil}, VPCs : SeqsUpTo(VpcEntries, MaxVPCs)]

\* aws.StringValue
StringValue(p) == IF p = None THEN <<>> ELSE p[1]

\* ListVPCAssociationAuthorizationsInput.Validate: HostedZoneId is set and has a character
Validate(zoneID) == IF Len(zoneID) < 1 THEN "InvalidParams" ELSE Nil

RECURSIVE LastMatch(_, _)
LastMatch(vpcs, vpcID) ==
  IF vpcs = <<>> THEN None
  ELSE IF vpcID = StringValue(vpcs[Len(vpcs)].VPCId) THEN Some(vpcs[Len(vpcs)])
  ELSE LastMatch(SubSeq(vpcs, 1, Len(vpcs) - 1), vpcID)

\* the range loop of route53GetVPCAssociation: first entry whose VPCId equals vpcID
RECURSIVE FirstMatch(_, _)
FirstMatch(vpcs, vpcID) ==
  IF vpcs = <<>> THEN None
  ELSE IF vpcID = StringValue(Head(vpcs).VPCId) THEN Some(Head(vpcs))
  ELSE FirstMatch(Tail(vpcs), vpcID)

\* route53GetVPCAssociation; called tells whether the list call was issued
route53GetVPCAssociation(zoneID, vpcID, resp) ==
  IF Validate(zoneID) # Nil THEN [vpc |-> None, err |-> "BadInput", called |-> FALSE]
  ELSE IF resp.err # Nil THEN [vpc |-> None, err |-> resp.err, called |-> TRUE]
  ELSE [vpc |-> FirstMatch(resp.VPCs, vpcID), err |-> Nil, called |-> TRUE]

EmptyPage == [err |-> Nil, VPCs |-> <<>>]
NoScan == [vpc |-> None, err |-> Nil, called |-> FALSE]

ScanZones == {<<>>, <<"z">>}
ScanTargets == {<<>>, <<"v">>, <<"v", "v">>, <<"z">>}

\* the lookup applied to an arbitrary zone, target and list outcome
Lookup ==
  /\ \E z \in ScanZones, v \in ScanTargets, r \in ListResponses :
       /\ scanZone' = z
       /\ scanVpc' = v
       /\ scanResp' = r
       /\ scanOut' = route53GetVPCAssociation(z, v, r)
  /\ scanOp' = "lookup"
  /\ UNCHANGED <<codecVars, authVars, ecsVars>>

----------------------------------------------------------------------------
\* VPC association authorization resource.

\* values the configuration gives zone_id, vpc_id and vpc_region ("" is unset)
ZoneIds == {<<"z">>, <<>>, <<"z", ":">>}
VpcIds == {<<"v">>, <<>>}
Configs == [zone_id : ZoneIds, vpc_id : VpcIds, vpc_region : {""} \cup VpcRegions]

\* a remote call a handler issued, with the error it came back with
Call(api, zone, vpc, reg, err) ==
  [api |-> api, HostedZoneId |-> zone, VPCId |-> vpc, VPCRegion |-> reg, err |-> err]

\* isAWSErr(err, code, ""): err is an AWS error carrying that code
isAWSErr(err, code) == err \in AwsErrCodes /\ err = code

ReadBodyKeepsIdOnMissingZone(curId, curAttrs, resp) ==
  LET p == ParseId(curId)
      g == route53GetVPCAssociation(p.zone, p.vpc, resp)
      listCalls == IF g.called THEN <<Call("List", p.zone, <<>>, "", resp.err)>> ELSE <<>>
  IN
  IF p.err # Nil
  THEN [id |-> curId, attrs |-> curAttrs, err |-> p.err, calls |-> <<>>]
  ELSE IF g.err # Nil
  THEN [id |-> curId, attrs |-> curAttrs, err |-> "ErrorGetting", calls |-> listCalls]
  ELSE IF g.vpc = None
  THEN [id |-> <<>>, attrs |-> curAttrs, err |-> Nil, calls |-> listCalls]
  ELSE [id |-> curId,
        attrs |-> [zone_id |-> p.zone, vpc_id |-> StringValue(g.vpc[1].VPCId),
                   vpc_region |-> g.vpc[1].VPCRegion],
        err |-> Nil, calls |-> listCalls]

\* body of resourceAwsRoute53CreateVPCAssociationAuthorizationRead on a resource
\* data holding curId and curAttrs, resp being the outcome of the list call
ReadBody(curId, curAttrs, resp) ==
  LET p == ParseId(curId)
      g == route53GetVPCAssociation(p.zone, p.vpc, resp)
      listCalls == IF g.called THEN <<Call("List", p.zone, <<>>, "", resp.err)>> ELSE <<>>
  IN
  IF p.err # Nil
  THEN [id |-> curId, attrs |-> curAttrs, err |-> p.err, calls |-> <<>>]
  ELSE IF isAWSErr(g.err, "NoSuchHostedZone")
  THEN [id |-> <<>>, attrs |-> curAttrs, err |-> Nil, calls |-> listCalls]
  ELSE IF g.err # Nil
  THEN [id |-> curId, attrs |-> curAttrs, err |-> "ErrorGetting", calls |-> listCalls]
  ELSE IF g.vpc = None
  THEN [id |-> <<>>, attrs |-> curAttrs, err |-> Nil, calls |-> listCalls]
  ELSE [id |-> curId,
        attrs |-> [zone_id |-> p.zone, vpc_id |-> StringValue(g.vpc[1].VPCId),
                   vpc_region |-> g.vpc[1].VPCRegion],
        err |-> Nil, calls |-> listCalls]

CreateBodyAmbientOnly(cfg, ambient, authErr, resp) ==
  LET reg == ambient
      auth == Call("Authorize", cfg.zone_id, cfg.vpc_id, reg, authErr)
      newId == EncodeId(cfg.zone_id, cfg.vpc_id)
      r == ReadBody(newId, cfg, resp)
  IN
  IF authErr # Nil
  THEN [id |-> <<>>, attrs |-> cfg, err |-> "ErrorCreating", calls |-> <<auth>>,
        readId |-> None]
  ELSE [id |-> r.id, attrs |-> r.attrs, err |-> r.err, calls |-> <<auth>> \o r.calls,
        readId |-> Some(newId)]

\* body of resourceAwsRoute53CreateVPCAssociationAuthorizationCreate on a fresh
\* resource data holding the configuration; authErr is the outcome of the
\* authorize call, resp of the list call of the follow-up Read
CreateBody(cfg, ambient, authErr, resp) ==
  LET reg == IF cfg.vpc_region # "" THEN cfg.vpc_region ELSE ambient
      auth == Call("Authorize", cfg.zone_id, cfg.vpc_id, reg, authErr)
      newId == EncodeId(cfg.zone_id, cfg.vpc_id)
      r == ReadBody(newId, cfg, resp)
  IN
  IF authErr # Nil
  THEN [id |-> <<>>, attrs |-> cfg, err |-> "ErrorCreating", calls |-> <<auth>>,
        readId |-> None]
  ELSE [id |-> r.id, attrs |-> r.attrs, err |-> r.err, calls |-> <<auth>> \o r.calls,
        readId |-> Some(newId)]

DeleteBodyAmbientRegion(curId, curAttrs, ambient, deauthErr) ==
  LET p == ParseId(curId) IN
  IF p.err # Nil
  THEN [err |-> p.err, calls |-> <<>>]
  ELSE [err |-> Nil, calls |-> <<Call("Deauthorize", p.zone, p.vpc, ambient, deauthErr)>>]

\* body of resourceAwsRoute53CreateVPCAssociationAuthorizationDelete; deauthErr is
\* the outcome of the deauthorize call, which the handler assigns and never reads
DeleteBody(curId, curAttrs, ambient, deauthErr) ==
  LET p == ParseId(curId) IN
  IF p.err # Nil
  THEN [err |-> p.err, calls |-> <<>>]
  ELSE [err |-> Nil,
        calls |-> <<Call("Deauthorize", p.zone, p.vpc, curAttrs.vpc_region, deauthErr)>>]

\* the remote answers that the configured VPC has no authorization in the zone
Absent(resp) ==
  \/ resp.err = "NoSuchHostedZone"
  \/ /\ resp.err = Nil
     /\ \A k \in 1..Len(resp.VPCs) : StringValue(resp.VPCs[k].VPCId) # config.vpc_id

\* the remote lists the authorization t, and lists its VPC with no other region
Faithful(resp, t) ==
  /\ resp.err = Nil
  /\ \E k \in 1..Len(resp.VPCs) :
       resp.VPCs[k].VPCId = Some(t.VPCId) /\ resp.VPCs[k].VPCRegion = t.VPCRegion
  /\ \A k \in 1..Len(resp.VPCs) :
       StringValue(resp.VPCs[k].VPCId) = t.VPCId => resp.VPCs[k].VPCRegion = t.VPCRegion

NoPrev == [op |-> "init", err |-> Nil, tracked |-> FALSE, absent |-> FALSE, cleared |-> FALSE]

\* summary of the handler call that just finished, kept while the next one runs
Summary ==
  [op |-> lastOp, err |-> lastErr,
   tracked |-> (readId # None /\ ParseId(StringValue(readId)).err = Nil),
   absent |-> Absent(listResp), cleared |-> (id = <<>>)]

\* list outcomes the remote gives the resource handlers
AuthVpcEntries ==
  [VPCId : {Some(<<"v">>)}, VPCRegion : VpcRegions]
    \cup {[VPCId |-> Some(<<"v", "v">>), VPCRegion |-> "us"]}

AuthListResponses ==
  [err : AwsErrCodes, VPCs : {<<>>}]
    \cup [err : {Nil}, VPCs : SeqsUpTo(AuthVpcEntries, MaxVPCs)]

\* the engine calls Create on a resource that has no identifier; the list call is
\* reached only when the authorize call succeeded
Create ==
  /\ id = <<>>
  /\ \E authErr \in {Nil, "RequestError"} :
     \E resp \in IF authErr = Nil THEN AuthListResponses ELSE {EmptyPage} :
       LET c == CreateBody(config, region, authErr, resp) IN
       /\ id' = c.id
       /\ attrs' = c.attrs
       /\ lastErr' = c.err
       /\ calls' = c.calls
       /\ readId' = c.readId
       /\ listResp' = resp
       /\ created' = IF c.err = Nil /\ c.id # <<>> THEN Some(c.calls[1]) ELSE None
       /\ clean' = (c.err = Nil /\ c.id # <<>> /\ Faithful(resp, c.calls[1]))
  /\ lastOp' = "Create"
  /\ prev' = Summary
  /\ UNCHANGED <<config, region, codecVars, scanVars, ecsVars>>

Read ==
  /\ \E resp \in AuthListResponses :
       LET r == ReadBody(id, attrs, resp) IN
       /\ id' = r.id
       /\ attrs' = r.attrs
       /\ lastErr' = r.err
       /\ calls' = r.calls
       /\ listResp' = resp
       /\ clean' = (clean /\ created # None /\ r.err = Nil /\ Faithful(resp, created[1]))
  /\ readId' = Some(id)
  /\ lastOp' = "Read"
  /\ prev' = Summary
  /\ UNCHANGED <<config, region, created, codecVars, scanVars, ecsVars>>

Delete ==
  /\ \E deauthErr \in {Nil, "RequestError"} :
       LET x == DeleteBody(id, attrs, region, deauthErr) IN
       /\ lastErr' = x.err
       /\ calls' = x.calls
  /\ readId' = None
  /\ listResp' = EmptyPage
  /\ lastOp' = "Delete"
  /\ prev' = Summary
  /\ UNCHANGED <<config, region, id, attrs, created, clean, codecVars, scanVars, ecsVars>>

----------------------------------------------------------------------------
\* ECS capacity provider resource.

OptOf(S) == {None} \cup {Some(x) : x \in S}

StepSizes == 1..MaxStep
TargetCaps == {100}
Statuses == {"ENABLED", "DISABLED"}

\* the managed_scaling block of the configuration; 0 and "" are unset leaves
ManagedScalingBlocks ==
  [maximum_scaling_step_size : {0} \cup StepSizes,
   minimum_scaling_step_size : {0, 1},
   status : {"", "ENABLED"},
   target_capacity : {0} \cup TargetCaps]

\* the auto_scaling_group_provider block: managed_scaling is a list that is empty
\* (no block), holds a nil element (a block with nothing in it) or holds one map
EcsConfigs ==
  [auto_scaling_group_arn : {"asg"},
   managed_termination_protection : {""} \cup Statuses,
   managed_scaling : {<<>>} \cup {<<m>> : m \in OptOf(ManagedScalingBlocks)}]

\* ecs.ManagedScaling and ecs.AutoScalingGroupProvider as the remote returns them
RemoteManagedScalings ==
  [MaximumScalingStepSize : OptOf(StepSizes),
   MinimumScalingStepSize : OptOf({1}),
   Status : OptOf({"ENABLED"}),
   TargetCapacity : OptOf(TargetCaps)]

RemoteProviders ==
  [AutoScalingGroupArn : {Some("asg")},
   ManagedTerminationProtection : OptOf({"DISABLED"}),
   ManagedScaling : OptOf(RemoteManagedScalings)]

\* aws.StringValue and aws.Int64Value on the ECS leaves
EcsStringValue(p) == IF p = None THEN "" ELSE p[1]
Int64Value(p) == IF p = None THEN 0 ELSE p[1]

\* expandAutoScalingGroupProvider
expandAutoScalingGroupProvider(configured) ==
  LET p == configured[1]
      val == p.managed_scaling
      ms == val[1][1]
  IN
  [AutoScalingGroupArn |-> Some(p.auto_scaling_group_arn),
   ManagedTerminationProtection |->
     IF p.managed_termination_protection # ""
     THEN Some(p.managed_termination_protection) ELSE None,
   ManagedScaling |->
     IF Len(val) > 0 /\ val[1] # None
     THEN Some([MaximumScalingStepSize |->
                  IF ms.maximum_scaling_step_size # 0
                  THEN Some(ms.maximum_scaling_step_size) ELSE None,
                MinimumScalingStepSize |->
                  IF ms.minimum_scaling_step_size # 0
                  THEN Some(ms.minimum_scaling_step_size) ELSE None,
                Status |-> IF ms.status # "" THEN Some(ms.status) ELSE None,
                TargetCapacity |->
                  IF ms.target_capacity # 0 THEN Some(ms.target_capacity) ELSE None])
     ELSE None]

\* flattenAutoScalingGroupProvider: fault tells that the call dereferenced the nil
\* ManagedScaling pointer and panicked; value is the list it returned otherwise
flattenAutoScalingGroupProvider(provider) ==
  IF provider = None THEN [fault |-> FALSE, value |-> <<>>]
  ELSE IF provider[1].ManagedScaling = None THEN [fault |-> TRUE, value |-> <<>>]
  ELSE
    LET q == provider[1]
        m == q.ManagedScaling[1]
    IN
    [fault |-> FALSE,
     value |->
       <<[auto_scaling_group_arn |-> EcsStringValue(q.AutoScalingGroupArn),
          managed_termination_protection |-> EcsStringValue(q.ManagedTerminationProtection),
          managed_scaling |->
            <<[maximum_scaling_step_size |-> Int64Value(m.MaximumScalingStepSize),
               minimum_scaling_step_size |-> Int64Value(m.MinimumScalingStepSize),
               status |-> EcsStringValue(m.Status),
               target_capacity |-> Int64Value(m.TargetCapacity)]>>]>>]

\* ARN the remote assigns to the created capacity provider, and another one
CpArn == "arn:cp"
OtherArn == "arn:other"

\* ecs.CapacityProvider entries and the outcome of conn.DescribeCapacityProviders
CapacityProviders ==
  [CapacityProviderArn : {CpArn}, Name : {"cp"},
   AutoScalingGroupProvider : OptOf(RemoteProviders)]
    \cup [CapacityProviderArn : {OtherArn}, Name : {"other"}, AutoScalingGroupProvider : {None}]

DescribeResponses ==
  [err : {"RequestError"}, CapacityProviders : {<<>>}]
    \cup [err : {Nil}, CapacityProviders : SeqsUpTo(CapacityProviders, 1)]

\* the range loop of resourceAwsEcsCapacityProviderRead: first entry whose ARN is the id
RECURSIVE FindProvider(_, _)
FindProvider(cps, arn) ==
  IF cps = <<>> THEN None
  ELSE IF Head(cps).CapacityProviderArn = arn THEN Some(Head(cps))
  ELSE FindProvider(Tail(cps), arn)

\* body of resourceAwsEcsCapacityProviderRead on a resource data holding curId and
\* curState, resp being the outcome of the describe call
EcsReadBody(curId, curState, resp) ==
  LET found == FindProvider(resp.CapacityProviders, curId)
      f == flattenAutoScalingGroupProvider(found[1].AutoScalingGroupProvider)
  IN
  IF resp.err # Nil
  THEN [id |-> curId, state |-> curState, err |-> "ErrorReading", fault |-> FALSE]
  ELSE IF found = None
  THEN [id |-> "", state |-> curState, err |-> Nil, fault |-> FALSE]
  ELSE IF f.fault
  THEN [id |-> curId, state |-> curState, err |-> Nil, fault |-> TRUE]
  ELSE [id |-> curId,
        state |-> [arn |-> found[1].CapacityProviderArn, name |-> found[1].Name,
                   auto_scaling_group_provider |-> f.value],
        err |-> Nil, fault |-> FALSE]

NoEcsState == [arn |-> "", name |-> "cp", auto_scaling_group_provider |-> <<>>]
NoDescribe == [err |-> Nil, CapacityProviders |-> <<>>]

\* resourceAwsEcsCapacityProviderCreate: createErr is the outcome of the create
\* call, resp of the describe call of the follow-up Read
EcsCreate ==
  /\ ecsId = ""
  /\ ecsReq' = Some(expandAutoScalingGroupProvider(<<ecsConfig>>))
  /\ \E createErr \in {Nil, "RequestError"} :
     \E resp \in IF createErr = Nil THEN DescribeResponses ELSE {NoDescribe} :
       LET r == EcsReadBody(CpArn, ecsState, resp) IN
       /\ ecsResp' = resp
       /\ IF createErr # Nil
          THEN /\ ecsErr' = "ErrorCreating"
               /\ UNCHANGED <<ecsId, ecsState>>
          ELSE /\ ecsId' = r.id
               /\ ecsState' = r.state
               /\ ecsErr' = IF r.fault THEN "panic" ELSE r.err
  /\ ecsOp' = "Create"
  /\ UNCHANGED <<ecsConfig, codecVars, scanVars, authVars>>

\* resourceAwsEcsCapacityProviderRead
EcsRead ==
  /\ ecsId # ""
  /\ \E resp \in DescribeResponses :
       LET r == EcsReadBody(ecsId, ecsState, resp) IN
       /\ ecsResp' = resp
       /\ ecsId' = r.id
       /\ ecsState' = r.state
       /\ ecsErr' = IF r.fault THEN "panic" ELSE r.err
  /\ ecsOp' = "Read"
  /\ UNCHANGED <<ecsConfig, ecsReq, codecVars, scanVars, authVars>>

----------------------------------------------------------------------------
\* Specifications: each one runs one part and keeps the others at rest.

\* a resource data without configuration
NoConfig == [zone_id |-> <<>>, vpc_id |-> <<>>, vpc_region |-> ""]
NoEcsConfig ==
  [auto_scaling_group_arn |-> "asg", managed_termination_protection |-> "",
   managed_scaling |-> <<>>]

\* the codec before any identifier was parsed
InitCodec ==
  /\ codecOp = "init"
  /\ codecA = <<>>
  /\ codecB = <<>>
  /\ codecId = <<>>
  /\ codecOut = NoParse
  /\ scanOp = "init"
  /\ scanZone = <<>>
  /\ scanVpc = <<>>
  /\ scanResp = EmptyPage
  /\ scanOut = NoScan
  /\ config = NoConfig
  /\ region = "us"
  /\ id = <<>>
  /\ attrs = config
  /\ lastOp = "init"
  /\ lastErr = Nil
  /\ calls = <<>>
  /\ readId = None
  /\ listResp = EmptyPage
  /\ prev = NoPrev
  /\ created = None
  /\ clean = FALSE
  /\ ecsConfig = NoEcsConfig
  /\ ecsId = ""
  /\ ecsReq = None
  /\ ecsResp = NoDescribe
  /\ ecsState = NoEcsState
  /\ ecsOp = "init"
  /\ ecsErr = Nil

CodecNext == ParseAny \/ EncodeDecode
SpecCodec == InitCodec /\ [][CodecNext]_vars

\* the lookup before any call
InitScan ==
  /\ codecOp = "init"
  /\ codecA = <<>>
  /\ codecB = <<>>
  /\ codecId = <<>>
  /\ codecOut = NoParse
  /\ scanOp = "init"
  /\ scanZone = <<>>
  /\ scanVpc = <<>>
  /\ scanResp = EmptyPage
  /\ scanOut = NoScan
  /\ config = NoConfig
  /\ region = "us"
  /\ id = <<>>
  /\ attrs = config
  /\ lastOp = "init"
  /\ lastErr = Nil
  /\ calls = <<>>
  /\ readId = None
  /\ listResp = EmptyPage
  /\ prev = NoPrev
  /\ created = None
  /\ clean = FALSE
  /\ ecsConfig = NoEcsConfig
  /\ ecsId = ""
  /\ ecsReq = None
  /\ ecsResp = NoDescribe
  /\ ecsState = NoEcsState
  /\ ecsOp = "init"
  /\ ecsErr = Nil

ScanNext == Lookup
SpecScan == InitScan /\ [][ScanNext]_vars

\* a configured authorization resource that was never created
Init ==
  /\ codecOp = "init"
  /\ codecA = <<>>
  /\ codecB = <<>>
  /\ codecId = <<>>
  /\ codecOut = NoParse
  /\ scanOp = "init"
  /\ scanZone = <<>>
  /\ scanVpc = <<>>
  /\ scanResp = EmptyPage
  /\ scanOut = NoScan
  /\ config \in Configs
  /\ region \in VpcRegions
  /\ id = <<>>
  /\ attrs = config
  /\ lastOp = "init"
  /\ lastErr = Nil
  /\ calls = <<>>
  /\ readId = None
  /\ listResp = EmptyPage
  /\ prev = NoPrev
  /\ created = None
  /\ clean = FALSE
  /\ ecsConfig = NoEcsConfig
  /\ ecsId = ""
  /\ ecsReq = None
  /\ ecsResp = NoDescribe
  /\ ecsState = NoEcsState
  /\ ecsOp = "init"
  /\ ecsErr = Nil

Next == Create \/ Read \/ Delete
Spec == Init /\ [][Next]_vars

\* a configured capacity provider that was never created
InitEcs ==
  /\ codecOp = "init"
  /\ codecA = <<>>
  /\ codecB = <<>>
  /\ codecId = <<>>
  /\ codecOut = NoParse
  /\ scanOp = "init"
  /\ scanZone = <<>>
  /\ scanVpc = <<>>
  /\ scanResp = EmptyPage
  /\ scanOut = NoScan
  /\ config = NoConfig
  /\ region = "us"
  /\ id = <<>>
  /\ attrs = config
  /\ lastOp = "init"
  /\ lastErr = Nil
  /\ calls = <<>>
  /\ readId = None
  /\ listResp = EmptyPage
  /\ prev = NoPrev
  /\ created = None
  /\ clean = FALSE
  /\ ecsConfig \in EcsConfigs
  /\ ecsId = ""
  /\ ecsReq = None
  /\ ecsResp = NoDescribe
  /\ ecsState = NoEcsState
  /\ ecsOp = "init"
  /\ ecsErr = Nil

EcsNext == EcsCreate \/ EcsRead
SpecEcs == InitEcs /\ [][EcsNext]_vars

----------------------------------------------------------------------------
\* Properties of the identifier codec (SpecCodec).

\* positions of the separator in an identifier
Colons(i) == {k \in 1..Len(i) : i[k] = ":"}

\* exactly one separator, with a character before it and a character after it
WellFormed(i) == Cardinality(Colons(i)) = 1 /\ 1 \notin Colons(i) /\ Len(i) \notin Colons(i)

\* C1: ParseId succeeds if and only if the identifier has exactly two non-empty
\* parts around a single ':'; every other identifier gets the format error with
\* empty zone and VPC strings, and an accepted identifier is returned whole,
\* never as a truncated pair.
C1_ParseIdAcceptsExactlyTwoParts ==
  codecOp # "init" =>
    /\ (codecOut.err = Nil) <=> WellFormed(codecId)
    /\ codecOut.err # Nil =>
         codecOut.err = "UnexpectedFormat" /\ codecOut.zone = <<>> /\ codecOut.vpc = <<>>
    /\ codecOut.err = Nil =>
         /\ codecOut.zone \o <<":">> \o codecOut.vpc = codecId
         /\ Colons(codecOut.zone) = {} /\ Colons(codecOut.vpc) = {}

\* an identifier with two separators and three non-empty parts was rejected
C1_Witness ==
  /\ codecOp = "parse"
  /\ Cardinality(Colons(codecId)) = 2
  /\ Colons(codecId) = {2, 4}
  /\ codecOut.err = "UnexpectedFormat"

\* C2: for non-empty a and b without ':', parsing the identifier Create builds
\* from them returns exactly (a, b) and no error.
C2_IdentifierRoundTrip ==
  (/\ codecOp = "roundtrip"
   /\ codecA # <<>> /\ codecB # <<>>
   /\ Colons(codecA) = {} /\ Colons(codecB) = {})
    => codecOut = [zone |-> codecA, vpc |-> codecB, err |-> Nil]

\* two different halves of two characters each made the round trip
C2_Witness ==
  /\ codecOp = "roundtrip"
  /\ codecA = <<"z", "v">> /\ codecB = <<"v", "z">>
  /\ codecId = <<"z", "v", ":", "v", "z">>
  /\ codecOut.err = Nil

----------------------------------------------------------------------------
\* Properties of the lookup (SpecScan).

\* the VPC ID of a listed entry; an entry without one reads as the empty string
EntryId(e) == IF e.VPCId = None THEN <<>> ELSE e.VPCId[1]

\* positions of the listed entries whose VPC ID is the target
Hits == {k \in 1..Len(scanResp.VPCs) : EntryId(scanResp.VPCs[k]) = scanVpc}

\* the request passed validation and the list call succeeded
Listed == scanZone # <<>> /\ scanResp.err = Nil

\* C3: when the list call succeeds the lookup returns the first listed entry
\* whose VPC ID equals the target, and nil entry with nil error when none does;
\* it returns an error only when validation or the list call fails, and then
\* no entry.
C3_LookupByScan ==
  scanOp = "lookup" =>
    /\ (Listed /\ Hits # {}) =>
         /\ scanOut.err = Nil
         /\ \E k \in Hits :
              /\ \A j \in Hits : k <= j
              /\ scanOut.vpc = Some(scanResp.VPCs[k])
    /\ (Listed /\ Hits = {}) => scanOut.err = Nil /\ scanOut.vpc = None
    /\ (scanOut.err # Nil) <=> ~Listed
    /\ scanOut.err # Nil => scanOut.vpc = None
    /\ scanOut.called <=> scanZone # <<>>

\* two different entries carry the target VPC ID and the first one was returned
C3_Witness ==
  /\ scanOp = "lookup"
  /\ Listed
  /\ Hits = {1, 2}
  /\ scanResp.VPCs[1] # scanResp.VPCs[2]
  /\ scanOut.vpc = Some(scanResp.VPCs[1])

----------------------------------------------------------------------------
\* Properties of the authorization handlers (Spec).

\* C4: Read called twice in a row on a tracked resource that the remote reports
\* absent both times leaves the identifier empty after each call and returns no
\* error on either call.
C4_ReadTwiceOnAbsentIsSilent ==
  (/\ lastOp = "Read" /\ prev.op = "Read"
   /\ prev.tracked
   /\ prev.absent /\ Absent(listResp))
    => /\ prev.cleared /\ prev.err = Nil
       /\ id = <<>> /\ lastErr = Nil

\* the list outcome is an error other than "no such hosted zone"
LookupFails(resp) == resp.err \in AwsErrCodes \ {"NoSuchHostedZone"}

\* the list outcome says the zone is gone, or lists no entry with the VPC ID v
NotFound(resp, v) ==
  \/ resp.err = "NoSuchHostedZone"
  \/ /\ resp.err = Nil
     /\ \A k \in 1..Len(resp.VPCs) : EntryId(resp.VPCs[k]) # v

\* C5: Read returns an error exactly when the identifier is malformed or the
\* lookup fails with an error other than "no such hosted zone", and then leaves
\* the identifier and the attributes as they were; when the zone does not exist
\* or no listed VPC matches, Read returns no error and clears the identifier.
C5_ReadSeparatesNotFoundFromFailure ==
  [][lastOp' = "Read" =>
       LET failure == ~WellFormed(id) \/ LookupFails(listResp') IN
       /\ (lastErr' # Nil) <=> failure
       /\ failure => id' = id /\ attrs' = attrs
       /\ (WellFormed(id) /\ NotFound(listResp', ParseId(id).vpc)) =>
            lastErr' = Nil /\ id' = <<>>]_vars

\* a Read whose list call failed left the resource tracked, and a Read that
\* found the zone missing cleared it
C5_Witness ==
  /\ lastOp = "Read"
  /\ listResp.err = "RequestError"
  /\ lastErr = "ErrorGetting"
  /\ WellFormed(id)
  /\ prev.op = "Read" /\ prev.err = Nil /\ ~prev.cleared

\* C6: a handler never swallows a failed remote call: Delete returns an error
\* when its deauthorize call failed, and Create returns an error when its
\* authorize call failed.
C6_NoRemoteFailureSwallowed ==
  /\ (lastOp = "Delete" /\ \E k \in 1..Len(calls) :
        calls[k].api = "Deauthorize" /\ calls[k].err # Nil) => lastErr # Nil
  /\ (lastOp = "Create" /\ \E k \in 1..Len(calls) :
        calls[k].api = "Authorize" /\ calls[k].err # Nil) => lastErr # Nil

\* C7: Create issues exactly one authorize call, for the configured zone_id and
\* vpc_id and for the configured vpc_region when that is non-empty and the
\* ambient region otherwise; when the call succeeds the follow-up Read runs on
\* the identifier "<zone_id>:<vpc_id>", and when it fails the identifier stays
\* unset, no Read runs and an error is returned.
C7_CreateAuthorizesOnceThenSetsId ==
  lastOp = "Create" =>
    /\ {k \in 1..Len(calls) : calls[k].api = "Authorize"} = {1}
    /\ calls[1].HostedZoneId = config.zone_id
    /\ calls[1].VPCId = config.vpc_id
    /\ calls[1].VPCRegion = (IF config.vpc_region # "" THEN config.vpc_region ELSE region)
    /\ calls[1].err = Nil => readId = Some(config.zone_id \o <<":">> \o config.vpc_id)
    /\ calls[1].err # Nil =>
         id = <<>> /\ lastErr # Nil /\ readId = None /\ Len(calls) = 1

\* a Create with a region override that differs from the ambient region succeeded
C7_Witness ==
  /\ lastOp = "Create"
  /\ config.vpc_region # "" /\ config.vpc_region # region
  /\ calls[1].VPCRegion = config.vpc_region
  /\ lastErr = Nil
  /\ id = <<"z", ":", "v">>

\* C8: after a succeeding Create and successful Reads against a remote that
\* lists the authorization with the VPC ID and region it was created with,
\* Delete issues one deauthorize call carrying the triple of the authorize call.
C8_DeleteUsesCreateTriple ==
  (lastOp = "Delete" /\ created # None /\ clean) =>
    /\ Len(calls) = 1
    /\ calls[1].api = "Deauthorize"
    /\ calls[1].HostedZoneId = created[1].HostedZoneId
    /\ calls[1].VPCId = created[1].VPCId
    /\ calls[1].VPCRegion = created[1].VPCRegion

\* a Delete after Create and a Read, for a resource created in the ambient region
C8_Witness ==
  /\ lastOp = "Delete" /\ prev.op = "Read"
  /\ created # None /\ clean
  /\ config.vpc_region = ""
  /\ Len(calls) = 1
  /\ calls[1].VPCRegion = region

----------------------------------------------------------------------------
\* Properties of the ECS capacity provider (SpecEcs).

\* the capacity providers of the last describe outcome that carry the created
\* ARN and an auto scaling group provider
Described ==
  {k \in 1..Len(ecsResp.CapacityProviders) :
     /\ ecsResp.CapacityProviders[k].CapacityProviderArn = CpArn
     /\ ecsResp.CapacityProviders[k].AutoScalingGroupProvider # None}

\* a pointer leaf the remote returned is written with its value
Written(leaf, value) == leaf # None => value = leaf[1]

\* C9: expand omits every optional leaf that is unset or zero/empty and omits
\* the managed-scaling structure when the block is absent, while flatten always
\* writes all four managed-scaling leaves and both provider leaves into state
\* with the values the remote returned.
C9_ExpandOmitsFlattenFills ==
  /\ ecsReq # None =>
       LET q == ecsReq[1]
           val == ecsConfig.managed_scaling
       IN
       /\ (q.ManagedTerminationProtection = None)
            <=> ecsConfig.managed_termination_protection = ""
       /\ val = <<>> => q.ManagedScaling = None
       /\ q.ManagedScaling # None =>
            LET m == q.ManagedScaling[1]
                c == val[1][1]
            IN
            /\ (m.MaximumScalingStepSize = None) <=> c.maximum_scaling_step_size = 0
            /\ (m.MinimumScalingStepSize = None) <=> c.minimum_scaling_step_size = 0
            /\ (m.Status = None) <=> c.status = ""
            /\ (m.TargetCapacity = None) <=> c.target_capacity = 0
  /\ (ecsOp # "init" /\ ecsResp.err = Nil /\ Described # {}) =>
       \E k \in Described :
         LET q == ecsResp.CapacityProviders[k].AutoScalingGroupProvider[1]
             st == ecsState.auto_scaling_group_provider
         IN
         /\ Len(st) = 1
         /\ Written(q.AutoScalingGroupArn, st[1].auto_scaling_group_arn)
         /\ Written(q.ManagedTerminationProtection, st[1].managed_termination_protection)
         /\ Len(st[1].managed_scaling) = 1
         /\ q.ManagedScaling # None =>
              LET m == q.ManagedScaling[1]
                  f == st[1].managed_scaling[1]
              IN
              /\ Written(m.MaximumScalingStepSize, f.maximum_scaling_step_size)
              /\ Written(m.MinimumScalingStepSize, f.minimum_scaling_step_size)
              /\ Written(m.Status, f.status)
              /\ Written(m.TargetCapacity, f.target_capacity)

\* C10: flatten is defined for every non-nil provider the remote returns, also
\* one without a managed-scaling structure: the handler never faults, and the
\* state holds one provider map whose managed_scaling is a list of one map.
C10_FlattenNeverFaults ==
  /\ ecsErr # "panic"
  /\ (ecsOp # "init" /\ ecsResp.err = Nil /\ Described # {}) =>
       /\ Len(ecsState.auto_scaling_group_provider) = 1
       /\ Len(ecsState.auto_scaling_group_provider[1].managed_scaling) = 1

====
